---- MODULE Spec2Model ----
(***************************************************************************)
(* Scale-in pipeline of the stateful target plugin (package utils):        *)
(* RunPreScaleInTasks = validate -> identifyTargets -> getRemoteIDMap ->   *)
(* filterBusyNodes -> drainNodes, with one drain goroutine per node.       *)
(*                                                                         *)
(* Go values are modelled as follows.                                      *)
(*   error            a sequence of entries [msg, detail]; nil is <<>>.    *)
(*                    A plain error has one entry, a *multierror.Error     *)
(*                    one entry per appended error.                        *)
(*   []T              a sequence; a nil slice and an empty slice are <<>>. *)
(*   map[string]bool  a function whose domain is the set of keys present.  *)
(*   *api.NodeListStub  [ID, NodeClass, CreateIndex]                       *)
(*   NodeID           [NomadID, RemoteID]                                  *)
(***************************************************************************)
EXTENDS Integers, Sequences, FiniteSets, TLC

\* ------------------------------------------------------------------ bounds
MaxNodes == 3      \* node IDs tried by the stages taken on their own
ClusterSize == 2   \* nodes of the cluster in the runs of the whole pipeline
MaxNum == 2        \* largest req.Num tried by the runs of the whole pipeline
MaxIndex == 2      \* largest CreateIndex tried by the selector inputs

IDName == <<"n1", "n2", "n3", "n4", "n5", "n6">>
NodeIDs == {IDName[i] : i \in 1..MaxNodes}
ClusterIDs == {IDName[i] : i \in 1..ClusterSize}
\* ScaleIn.curNodeID: not identified, or the node the autoscaler runs on
SelfIDs == {"", IDName[1]}
Classes == {"high-memory", "general"}

\* ------------------------------------------------------- request constants
IdentifierKeyClass == "class"
IDStrategyNewestCreateIndex == "newest_create_index"
RemoteProviderAWSInstanceID == "aws_instance_id"

IdentifierKeys == {IdentifierKeyClass, "unknown_key"}
Strategies == {IDStrategyNewestCreateIndex, "oldest_create_index"}
Providers == {RemoteProviderAWSInstanceID, "unknown_provider"}

\* ------------------------------------------------------------------ errors
Nil == <<>>
Errorf(msg, detail) == <<[msg |-> msg, detail |-> detail]>>
\* the text %v prints for an error: its first entry's message
Text(err) == IF err = Nil THEN "" ELSE err[1].msg
\* multierror.Append(mErr, err)
MultiAppend(mErr, err) == mErr \o err

Range(s) == {s[i] : i \in 1..Len(s)}
Min(a, b) == IF a <= b THEN a ELSE b
IDsOf(stubs) == {stubs[i].ID : i \in 1..Len(stubs)}
NomadIDsOf(ids) == {ids[i].NomadID : i \in 1..Len(ids)}

\* ---------------------------------------------------------------- requests
\* ScaleInReq.validate: the count is not negative and the pool identifier's key
\* is a recognised kind.
validate(r) ==
    IF r.Num < 0 THEN Errorf("num should not be negative", "")
    ELSE IF r.PoolIdentifier.IdentifierKey # IdentifierKeyClass
         THEN Errorf("unsupported node pool identifier", r.PoolIdentifier.IdentifierKey)
    ELSE Nil

\* PoolIdentifier.IdentifyNodes: the nodes whose attribute named by the key
\* equals the value, in the order of the listing.
IdentifyNodes(ident, n) ==
    IF ident.IdentifierKey = IdentifierKeyClass
    THEN [nodes |-> SelectSeq(n, LAMBDA s : s.NodeClass = ident.Value), err |-> Nil]
    ELSE [nodes |-> <<>>,
          err |-> Errorf("unsupported node pool identifier", ident.IdentifierKey)]

\* ---------------------------------------------------------------- selector
filterOutNodeID_Keep(n, id) == n

filterOutNodeID_AndHead(n, id) ==
    LET kept == SelectSeq(n, LAMBDA s : s.ID # id)
    IN  IF id = "" \/ kept = <<>> THEN kept ELSE Tail(kept)

filterOutNodeID(n, id) ==
    IF id = "" THEN n ELSE SelectSeq(n, LAMBDA s : s.ID # id)

\* lines 161-179: cap num at the number of filtered nodes (with a warning) and
\* take filteredNodes[0 .. num-1].
selectNodes_OffByOne(num, filteredNodes) ==
    LET n == IF num > Len(filteredNodes) THEN Len(filteredNodes) - 1 ELSE num
    IN  [out |-> SubSeq(filteredNodes, 1, n), err |-> Nil,
         warned |-> num > Len(filteredNodes)]

selectNodes_All(num, filteredNodes) ==
    [out |-> filteredNodes, err |-> Nil, warned |-> num > Len(filteredNodes)]

selectNodes(num, filteredNodes) ==
    LET n == IF num > Len(filteredNodes) THEN Len(filteredNodes) ELSE num
    IN  [out |-> SubSeq(filteredNodes, 1, n), err |-> Nil,
         warned |-> num > Len(filteredNodes)]

NoNodes(err) == [out |-> <<>>, err |-> err, warned |-> FALSE]

identifyTargets_NoEmptyCheck(num, ident, strategy, list, curNodeID) ==
    IF list.err # Nil
    THEN NoNodes(Errorf("failed to list Nomad nodes from API", Text(list.err)))
    ELSE LET ident_res == IdentifyNodes(ident, list.nodes)
             filteredNodes == filterOutNodeID(ident_res.nodes, curNodeID)
         IN  IF ident_res.err # Nil THEN NoNodes(ident_res.err)
             ELSE IF strategy # IDStrategyNewestCreateIndex
                  THEN NoNodes(Errorf("unsupported scale in node identification strategy",
                                      strategy))
             ELSE selectNodes(num, filteredNodes)

identifyTargets_DefaultStrategy(num, ident, strategy, list, curNodeID) ==
    IF list.err # Nil
    THEN NoNodes(Errorf("failed to list Nomad nodes from API", Text(list.err)))
    ELSE LET ident_res == IdentifyNodes(ident, list.nodes)
             filteredNodes == filterOutNodeID(ident_res.nodes, curNodeID)
         IN  IF ident_res.err # Nil THEN NoNodes(ident_res.err)
             ELSE IF Len(filteredNodes) = 0
                  THEN NoNodes(Errorf("no nodes unfiltered", ident.Value))
             ELSE selectNodes(num, filteredNodes)

\* list is the answer of si.nomad.Nodes().List: [nodes, err].
identifyTargets(num, ident, strategy, list, curNodeID) ==
    IF list.err # Nil
    THEN NoNodes(Errorf("failed to list Nomad nodes from API", Text(list.err)))
    ELSE LET ident_res == IdentifyNodes(ident, list.nodes)
             filteredNodes == filterOutNodeID(ident_res.nodes, curNodeID)
         IN  IF ident_res.err # Nil THEN NoNodes(ident_res.err)
             ELSE IF Len(filteredNodes) = 0
                  THEN NoNodes(Errorf("no nodes unfiltered", ident.Value))
             ELSE IF strategy # IDStrategyNewestCreateIndex
                  THEN NoNodes(Errorf("unsupported scale in node identification strategy",
                                      strategy))
             ELSE selectNodes(num, filteredNodes)

\* ---------------------------------------------------------------- resolver
InstanceName == <<"i-1", "i-2", "i-3", "i-4", "i-5", "i-6">>
InstanceOf(id) == InstanceName[CHOOSE i \in 1..Len(IDName) : IDName[i] = id]

\* What si.nomad.Nodes().Info(id) can answer: the node with its instance-id
\* attribute, the node without it, or an API error.
InfoKinds == {"attr", "noattr", "apierr"}
InfoAnswer(id, kind) ==
    CASE kind = "attr"   -> [err |-> Nil, ID |-> id, InstanceID |-> InstanceOf(id)]
      [] kind = "noattr" -> [err |-> Nil, ID |-> id, InstanceID |-> ""]
      [] kind = "apierr" -> [err |-> Errorf("Unexpected response code: 500", ""),
                             ID |-> id, InstanceID |-> ""]

\* the AWS extractor registered in idFuncMap: the node's instance-id attribute,
\* or an error when the node has none.
awsNodeIDMap(nodeInfo) ==
    IF nodeInfo.InstanceID = ""
    THEN [id |-> "", err |-> Errorf("attribute \"unique.platform.aws.instance-id\" not found", "")]
    ELSE [id |-> nodeInfo.InstanceID, err |-> Nil]

\* idFuncMap: the providers that have an extractor, and the extractor of each.
idFuncMapKeys == {RemoteProviderAWSInstanceID}
idFuncMap(remoteProvider, nodeInfo) == awsNodeIDMap(nodeInfo)

resolveOne_NoRemoteID(acc, node, nodeInfo, remoteProvider) ==
    LET r == idFuncMap(remoteProvider, nodeInfo)
        mErr == IF r.err # Nil THEN MultiAppend(acc.mErr, r.err) ELSE acc.mErr
    IN  [acc EXCEPT !.mErr = mErr,
                    !.out = Append(acc.out, [NomadID |-> node.ID, RemoteID |-> ""])]

\* lines 203-215, one iteration of the loop once the node's info is in hand.
resolveOne(acc, node, nodeInfo, remoteProvider) ==
    LET r == idFuncMap(remoteProvider, nodeInfo)
        mErr == IF r.err # Nil THEN MultiAppend(acc.mErr, r.err) ELSE acc.mErr
    IN  [acc EXCEPT !.mErr = mErr,
                    !.out = Append(acc.out, [NomadID |-> node.ID, RemoteID |-> r.id])]

\* lines 194-218: the loop over nodes from position i on. info[id] is the
\* answer of the Info call for id; fetched records the answers of the calls made.
RECURSIVE resolveLoop(_, _, _, _, _)
resolveLoop(nodes, i, remoteProvider, info, acc) ==
    IF i > Len(nodes) THEN [out |-> acc.out, err |-> acc.mErr, fetched |-> acc.fetched]
    ELSE LET nodeInfo == info[nodes[i].ID]
             fetched == Append(acc.fetched, nodeInfo)
         IN  IF nodeInfo.err # Nil
             THEN [out |-> <<>>, err |-> nodeInfo.err, fetched |-> fetched]
             ELSE resolveLoop(nodes, i + 1, remoteProvider, info,
                              resolveOne([acc EXCEPT !.fetched = fetched],
                                         nodes[i], nodeInfo, remoteProvider))

getRemoteIDMap_LateCheck(nodes, remoteProvider, info) ==
    LET r == resolveLoop(nodes, 1, remoteProvider, info,
                         [out |-> <<>>, mErr |-> Nil, fetched |-> <<>>])
    IN  IF remoteProvider \notin idFuncMapKeys
        THEN [out |-> <<>>,
              err |-> Errorf("remote provider ID function not found", remoteProvider),
              fetched |-> r.fetched]
        ELSE r

getRemoteIDMap(nodes, remoteProvider, info) ==
    IF remoteProvider \notin idFuncMapKeys
    THEN [out |-> <<>>, err |-> Errorf("remote provider ID function not found", remoteProvider),
          fetched |-> <<>>]
    ELSE resolveLoop(nodes, 1, remoteProvider, info,
                     [out |-> <<>>, mErr |-> Nil, fetched |-> <<>>])

\* ------------------------------------------------------------- busy filter
NoStatus == [id \in {} |-> FALSE]
\* the status maps over the nodes known: any of them present or absent
StatusMaps(known) == UNION {[D -> BOOLEAN] : D \in SUBSET known}
\* What si.dms.Dms().List() can answer: a status map, or an error.
OracleAnswers(known) ==
    {[err |-> Nil, Nodes |-> m] : m \in StatusMaps(known)}
        \cup {[err |-> Errorf("Unexpected response code: 500", ""), Nodes |-> NoStatus]}

isBusy_UnknownIsBusy(nodesStatus, id) ==
    id \notin DOMAIN nodesStatus \/ nodesStatus[id]

isBusy_Never(nodesStatus, id) == FALSE

\* lines 234-241: the node is skipped when it is in the map with value true.
isBusy(nodesStatus, id) ==
    id \in DOMAIN nodesStatus /\ nodesStatus[id]

filterBusyNodes_KeepOnError(nodes, oracle) ==
    IF oracle.err # Nil THEN [out |-> nodes, err |-> oracle.err]
    ELSE [out |-> SelectSeq(nodes, LAMBDA n : ~isBusy(oracle.Nodes, n.NomadID)),
          err |-> Nil]

\* oracle is the answer of si.dms.Dms().List(): [Nodes, err].
filterBusyNodes(nodes, oracle) ==
    IF oracle.err # Nil THEN [out |-> <<>>, err |-> oracle.err]
    ELSE [out |-> SelectSeq(nodes, LAMBDA n : ~isBusy(oracle.Nodes, n.NomadID)),
          err |-> Nil]

\* ------------------------------------------------------------------- state
VARIABLES
    req,          \* the *ScaleInReq of the run
    curNodeID,    \* ScaleIn.curNodeID ("" when not identified)
    dms,          \* ScaleIn.dms: "client", or "nil" when NewDmsApiClient failed
    inventory,    \* the cluster's nodes, in the order Nodes().List delivers them
    listing,      \* identifyTargets: the answer of Nodes().List
    pc,           \* position of RunPreScaleInTasks
    nodes,        \* RunPreScaleInTasks: nodes (output of identifyTargets)
    warned,       \* identifyTargets logged the "portion of requested nodes" warning
    infoAnswers,  \* the answers of the Nodes().Info calls, in call order
    nodeIDMap,    \* RunPreScaleInTasks: nodeIDMap
    oracleQueries,\* number of Dms().List calls made
    nodesStatus,  \* the answer of the Dms().List call
    filterErr,    \* RunPreScaleInTasks: err as assigned at line 108
    ctxDone,      \* the governing context is cancelled
    tpc,          \* per drain goroutine: position
    terr,         \* per drain goroutine: the error drainNode returned
    logged,       \* per drain goroutine: a monitor message was logged
    errMsg,       \* per drain goroutine: an error-level monitor message was received
    tloc,         \* per drain goroutine: the value of result read for the append
    result,       \* drainNodes: result
    resultLock,   \* drainNodes: resultLock holder (0 = unlocked)
    updates,      \* per node ID: Nodes().UpdateDrain calls issued
    monitors,     \* per node ID: Nodes().MonitorDrain streams opened
    draining,     \* the nodes whose drain the cluster has accepted
    retList,      \* RunPreScaleInTasks: returned []NodeID
    retErr,       \* RunPreScaleInTasks: returned error
    inputNum,     \* generateScaleReq: num
    inputConfig,  \* generateScaleReq: config (map[string]string)
    checkOrder,   \* generateScaleReq: which of its two checks comes first
    gpc,          \* position of generateScaleReq ("idle" when it is not run)
    genReq,       \* generateScaleReq: returned *ScaleInReq (<<>> is nil)
    genErr        \* generateScaleReq: returned error

vars == <<req, curNodeID, dms, inventory, pc, listing, nodes, warned, infoAnswers, nodeIDMap,
          oracleQueries, nodesStatus, filterErr, ctxDone, tpc, terr, logged, errMsg, tloc,
          result,
          resultLock, updates, monitors, draining, retList, retErr,
          inputNum, inputConfig, checkOrder, gpc, genReq, genErr>>

selectVars == <<listing, nodes, warned>>
resolveVars == <<infoAnswers, nodeIDMap>>
oracleVars == <<oracleQueries, nodesStatus, filterErr>>
taskVars == <<tpc, terr, logged, errMsg, tloc, result, resultLock, updates, monitors,
              draining>>
pluginVars == <<inputNum, inputConfig, checkOrder, gpc, genReq, genErr>>
inputVars == <<req, curNodeID, dms, inventory, pluginVars>>
retVars == <<retList, retErr>>

\* ------------------------------------------------------------------ inputs
Stub(id, class, index) == [ID |-> id, NodeClass |-> class, CreateIndex |-> index]

\* listings of up to k nodes with distinct IDs, every order, stubs from S
RECURSIVE Listings(_, _)
Listings(S, k) ==
    IF k = 0 THEN {<<>>}
    ELSE LET shorter == Listings(S, k - 1)
         IN  shorter \cup
             {Append(l, s) : l \in {x \in shorter : Len(x) = k - 1},
                             s \in S} 

DistinctIDs(l) == \A i, j \in 1..Len(l) : i # j => l[i].ID # l[j].ID

AllStubs == {Stub(id, c, x) : id \in NodeIDs, c \in Classes, x \in 1..MaxIndex}
\* in the pipeline runs node k was created k-th
IndexOf(id) == CHOOSE i \in 1..Len(IDName) : IDName[i] = id
AgedStubs(ids) == {Stub(id, c, IndexOf(id)) : id \in ids, c \in Classes}

Inventories(S, k) == {l \in Listings(S, k) : DistinctIDs(l)}

PoolValue == "high-memory"
Requests ==
    [Num : -1..MaxNum,
     PoolIdentifier : [IdentifierKey : IdentifierKeys, Value : {PoolValue}],
     RemoteProvider : Providers,
     NodeIDStrategy : Strategies]

NoTasks == <<>>
NoCalls == [id \in NodeIDs |-> 0]

\* a request built by the caller, not by generateScaleReq
NoConfig == [k \in {} |-> ""]
PluginIdle ==
    /\ inputNum = 0 /\ inputConfig = NoConfig /\ checkOrder = "class"
    /\ gpc = "idle" /\ genReq = <<>> /\ genErr = Nil

Fresh ==
    /\ listing = [nodes |-> <<>>, err |-> Nil]
    /\ nodes = <<>> /\ warned = FALSE
    /\ infoAnswers = <<>> /\ nodeIDMap = <<>>
    /\ oracleQueries = 0 /\ nodesStatus = [err |-> Nil, Nodes |-> NoStatus]
    /\ filterErr = Nil
    /\ ctxDone = FALSE
    /\ tpc = NoTasks /\ terr = NoTasks /\ logged = NoTasks /\ tloc = NoTasks
    /\ errMsg = NoTasks
    /\ result = Nil /\ resultLock = 0
    /\ updates = NoCalls /\ monitors = NoCalls /\ draining = {}
    /\ retList = <<>> /\ retErr = Nil
    /\ PluginIdle

\* A ScaleIn built by NewScaleInUtils and a request handed to RunPreScaleInTasks.
Init ==
    /\ inventory \in Inventories(AgedStubs(ClusterIDs), ClusterSize)
    /\ req \in Requests
    /\ curNodeID \in SelfIDs
    /\ dms \in {"client", "nil"}
    /\ pc = "validate"
    /\ Fresh

\* ------------------------------------------------------- RunPreScaleInTasks
Return(list, err) ==
    /\ pc' = "done"
    /\ retList' = list
    /\ retErr' = err

\* lines 89-91
Validate ==
    /\ pc = "validate"
    /\ LET err == validate(req)
       IN  IF err # Nil
           THEN Return(<<>>, Errorf("failed to validate request", Text(err)))
           ELSE pc' = "select" /\ UNCHANGED retVars
    /\ UNCHANGED <<inputVars, selectVars, resolveVars, oracleVars, ctxDone, taskVars>>

ListAnswers ==
    {[nodes |-> inventory, err |-> Nil],
     [nodes |-> <<>>, err |-> Errorf("Unexpected response code: 500", "")]}

\* lines 93-96
IdentifyTargets ==
    /\ pc = "select"
    /\ \E list \in ListAnswers :
         LET r == identifyTargets(req.Num, req.PoolIdentifier, req.NodeIDStrategy,
                                  list, curNodeID)
         IN  /\ listing' = list
             /\ nodes' = r.out
             /\ warned' = r.warned
             /\ IF r.err # Nil
                THEN Return(<<>>, Errorf("failed to identify nodes for removal", Text(r.err)))
                ELSE pc' = "resolve" /\ UNCHANGED retVars
    /\ UNCHANGED <<inputVars, resolveVars, oracleVars, ctxDone, taskVars>>

\* lines 101-104: what RunPreScaleInTasks does with getRemoteIDMap's error
resolveFatal_Never(err) == FALSE

resolveFatal(err) == err # Nil

GetRemoteIDMap ==
    /\ pc = "resolve"
    /\ \E kind \in [IDsOf(nodes) -> InfoKinds] :
         LET info == [id \in IDsOf(nodes) |-> InfoAnswer(id, kind[id])]
             r == getRemoteIDMap(nodes, req.RemoteProvider, info)
         IN  /\ nodeIDMap' = r.out
             /\ infoAnswers' = r.fetched
             /\ IF resolveFatal(r.err)
                THEN Return(<<>>, r.err)
                ELSE pc' = "busyfilter" /\ UNCHANGED retVars
    /\ UNCHANGED <<inputVars, selectVars, oracleVars, ctxDone, taskVars>>

\* lines 108-114. A nil si.dms is dereferenced by the query (part_002 line 445).
noneLeft_Never(ids) == FALSE

noneLeft(ids) == Len(ids) = 0

FilterBusyNodes ==
    /\ pc = "busyfilter"
    /\ IF dms = "nil"
       THEN /\ pc' = "panic"
            /\ UNCHANGED <<nodeIDMap, oracleVars, retVars>>
       ELSE \E oracle \in OracleAnswers(IDsOf(inventory)) :
              LET r == filterBusyNodes(nodeIDMap, oracle)
              IN  /\ oracleQueries' = oracleQueries + 1
                  /\ nodesStatus' = oracle
                  /\ nodeIDMap' = r.out
                  /\ filterErr' = r.err
                  /\ IF noneLeft(r.out)
                     THEN Return(<<>>, Errorf("failed to identify nodes for removal", ""))
                     ELSE pc' = "drain" /\ UNCHANGED retVars
    /\ UNCHANGED <<inputVars, selectVars, infoAnswers, ctxDone, taskVars>>

\* --------------------------------------------------------------- drainNodes
Tasks == DOMAIN tpc
NodeOf(i) == nodeIDMap[i].NomadID

\* lines 268-290: one goroutine per node, wg.Add(1) for each
DrainNodes ==
    /\ pc = "drain"
    /\ pc' = "wait"
    /\ tpc' = [i \in 1..Len(nodeIDMap) |-> "update"]
    /\ terr' = [i \in 1..Len(nodeIDMap) |-> Nil]
    /\ logged' = [i \in 1..Len(nodeIDMap) |-> FALSE]
    /\ errMsg' = [i \in 1..Len(nodeIDMap) |-> FALSE]
    /\ tloc' = [i \in 1..Len(nodeIDMap) |-> Nil]
    /\ UNCHANGED <<inputVars, selectVars, resolveVars, oracleVars, ctxDone,
                   result, resultLock, updates, monitors, draining, retVars>>

\* the caller cancels ctx, or its deadline passes
Cancel ==
    /\ pc = "wait"
    /\ ~ctxDone
    /\ ctxDone' = TRUE
    /\ UNCHANGED <<inputVars, pc, selectVars, resolveVars, oracleVars, taskVars, retVars>>

\* drainNode lines 305-312: where the goroutine goes once UpdateDrain is back:
\* on to monitoring, or out with the error
afterUpdate_Retry(ok) == IF ok THEN "monitor" ELSE "update"

afterUpdate_MonitorAnyway(ok) == "monitor"

afterUpdate(ok) == IF ok THEN "monitor" ELSE "failed"

\* drainNode lines 305-308 and the opening of the stream at line 324
UpdateDrain(i) ==
    /\ pc = "wait" /\ tpc[i] = "update"
    /\ updates' = [updates EXCEPT ![NodeOf(i)] = @ + 1]
    /\ \E ok \in BOOLEAN :
         /\ tpc' = [tpc EXCEPT ![i] = afterUpdate(ok)]
         /\ IF afterUpdate(ok) = "monitor"
            THEN monitors' = [monitors EXCEPT ![NodeOf(i)] = @ + 1]
            ELSE UNCHANGED monitors
         /\ draining' = IF ok THEN draining \cup {NodeOf(i)} ELSE draining
         /\ IF ok
            THEN UNCHANGED terr
            ELSE terr' = [terr EXCEPT ![i] =
                            Errorf("failed to drain node", "Unexpected response code: 500")]
    /\ UNCHANGED <<inputVars, pc, selectVars, resolveVars, oracleVars, ctxDone,
                   logged, errMsg, tloc, result, resultLock, retVars>>

MsgLevels == {"info", "warn", "error", "unspecified"}

\* lines 325-332: the switch on msg.Level returns only for the error level
terminal_Never(level) == FALSE

terminal(level) == level = "error"

\* monitorNodeDrain lines 324-335: one message of the stream, of any level;
\* the stream may deliver any number of them
MonitorMsg(i) ==
    /\ pc = "wait" /\ tpc[i] = "monitor"
    /\ \E level \in MsgLevels :
         /\ IF level = "error"
            THEN errMsg' = [errMsg EXCEPT ![i] = TRUE] /\ UNCHANGED logged
            ELSE logged' = [logged EXCEPT ![i] = TRUE] /\ UNCHANGED errMsg
         /\ IF terminal(level)
            THEN /\ tpc' = [tpc EXCEPT ![i] = "failed"]
                 /\ terr' = [terr EXCEPT ![i] =
                               Errorf("context done while monitoring node drain",
                                      "received error while draining node")]
            ELSE UNCHANGED <<tpc, terr>>
    /\ UNCHANGED <<inputVars, pc, selectVars, resolveVars, oracleVars, ctxDone,
                   tloc, result, resultLock, updates, monitors, draining, retVars>>

\* line 336: ctx.Err()
ctxErr_Always(done) == Errorf("context canceled", "")

ctxErr(done) == IF done THEN Errorf("context canceled", "") ELSE Nil

\* monitorNodeDrain line 336 and drainNode lines 312-315: the stream is closed
MonitorClosed(i) ==
    /\ pc = "wait" /\ tpc[i] = "monitor"
    /\ LET err == ctxErr(ctxDone)
       IN  IF err # Nil
           THEN /\ tpc' = [tpc EXCEPT ![i] = "failed"]
                /\ terr' = [terr EXCEPT ![i] =
                              Errorf("context done while monitoring node drain", Text(err))]
           ELSE /\ tpc' = [tpc EXCEPT ![i] = "done"]
                /\ UNCHANGED terr
    /\ UNCHANGED <<inputVars, pc, selectVars, resolveVars, oracleVars, ctxDone,
                   logged, errMsg, tloc, result, resultLock, updates, monitors, draining, retVars>>

\* line 285: resultLock.Lock()
lockFree_Always(holder) == TRUE

lockFree(holder) == holder = 0

\* lines 285-286: take the lock and read result for the append
LockResult(i) ==
    /\ pc = "wait" /\ tpc[i] = "failed"
    /\ lockFree(resultLock)
    /\ resultLock' = i
    /\ tloc' = [tloc EXCEPT ![i] = result]
    /\ tpc' = [tpc EXCEPT ![i] = "append"]
    /\ UNCHANGED <<inputVars, pc, selectVars, resolveVars, oracleVars, ctxDone,
                   terr, logged, errMsg, result, updates, monitors, draining, retVars>>

\* lines 283-287: all the failure branch of the goroutine does is the append;
\* it issues no call for the node, whose drain stays as the cluster has it
drainsAfterFailure_RolledBack(drains, id) == drains \ {id}

drainsAfterFailure(drains, id) == drains

\* lines 286-287 and the deferred wg.Done(): store the appended error, unlock
AppendResult(i) ==
    /\ pc = "wait" /\ tpc[i] = "append"
    /\ draining' = drainsAfterFailure(draining, NodeOf(i))
    /\ result' = MultiAppend(tloc[i], terr[i])
    /\ resultLock' = 0
    /\ tloc' = [tloc EXCEPT ![i] = Nil]
    /\ tpc' = [tpc EXCEPT ![i] = "done"]
    /\ UNCHANGED <<inputVars, pc, selectVars, resolveVars, oracleVars, ctxDone,
                   terr, logged, errMsg, updates, monitors, retVars>>

\* RunPreScaleInTasks lines 116-120: what is returned once drainNodes is back
drained(ids, errs, err) ==
    IF err # Nil THEN [list |-> <<>>, err |-> err] ELSE [list |-> ids, err |-> Nil]

\* line 292: wg.Wait() returns once every goroutine has called wg.Done()
joined_Any(positions) == \E i \in DOMAIN positions : positions[i] = "done"

joined(positions) == \A i \in DOMAIN positions : positions[i] = "done"

\* line 292 wg.Wait() returns, drainNodes returns result, lines 116-120
DrainJoin ==
    /\ pc = "wait"
    /\ joined(tpc)
    /\ LET r == drained(nodeIDMap, terr, result)
       IN  Return(r.list, r.err)
    /\ UNCHANGED <<inputVars, selectVars, resolveVars, oracleVars, ctxDone, taskVars>>

Next ==
    \/ Validate
    \/ IdentifyTargets
    \/ GetRemoteIDMap
    \/ FilterBusyNodes
    \/ DrainNodes
    \/ Cancel
    \/ \E i \in Tasks : UpdateDrain(i)
    \/ \E i \in Tasks : MonitorMsg(i)
    \/ \E i \in Tasks : MonitorClosed(i)
    \/ \E i \in Tasks : LockResult(i)
    \/ \E i \in Tasks : AppendResult(i)
    \/ DrainJoin

Spec == Init /\ [][Next]_vars

\* ------------------------------------------- the stages taken on their own
\* identifyTargets on every listing, count, strategy and self ID
SelectRequests ==
    [Num : 0..(MaxNodes + 1),
     PoolIdentifier : [IdentifierKey : {IdentifierKeyClass}, Value : {PoolValue}],
     RemoteProvider : {RemoteProviderAWSInstanceID},
     NodeIDStrategy : Strategies]

InitSelect ==
    /\ inventory \in Inventories(AllStubs, MaxNodes)
    /\ req \in SelectRequests
    /\ curNodeID \in SelfIDs
    /\ dms = "client"
    /\ pc = "select"
    /\ Fresh

SpecSelect == InitSelect /\ [][IdentifyTargets]_vars

\* the selections identifyTargets can hand to the later stages
Selections == Inventories({Stub(id, PoolValue, IndexOf(id)) : id \in NodeIDs}, MaxNodes)
RequestFor(n, provider) ==
    [Num |-> n,
     PoolIdentifier |-> [IdentifierKey |-> IdentifierKeyClass, Value |-> PoolValue],
     RemoteProvider |-> provider,
     NodeIDStrategy |-> IDStrategyNewestCreateIndex]

Selected(l) ==
    /\ inventory = l
    /\ listing = [nodes |-> l, err |-> Nil]
    /\ nodes = l
    /\ warned = FALSE
    /\ curNodeID = ""

\* getRemoteIDMap on every selection, provider and set of Info answers
InitResolve ==
    /\ \E l \in Selections, provider \in Providers :
         /\ Selected(l)
         /\ req = RequestFor(Len(l), provider)
    /\ dms = "client"
    /\ pc = "resolve"
    /\ infoAnswers = <<>> /\ nodeIDMap = <<>>
    /\ oracleQueries = 0 /\ nodesStatus = [err |-> Nil, Nodes |-> NoStatus]
    /\ filterErr = Nil
    /\ ctxDone = FALSE
    /\ tpc = NoTasks /\ terr = NoTasks /\ logged = NoTasks /\ tloc = NoTasks
    /\ errMsg = NoTasks
    /\ result = Nil /\ resultLock = 0
    /\ updates = NoCalls /\ monitors = NoCalls /\ draining = {}
    /\ retList = <<>> /\ retErr = Nil
    /\ PluginIdle

SpecResolve == InitResolve /\ [][GetRemoteIDMap]_vars

\* what getRemoteIDMap hands on when every node of l resolves
ResolvedOf(l) == [i \in 1..Len(l) |-> [NomadID |-> l[i].ID, RemoteID |-> InstanceOf(l[i].ID)]]
AnswersOf(l) == [i \in 1..Len(l) |-> InfoAnswer(l[i].ID, "attr")]

Resolved(l) ==
    /\ Selected(l)
    /\ req = RequestFor(Len(l), RemoteProviderAWSInstanceID)
    /\ infoAnswers = AnswersOf(l)
    /\ nodeIDMap = ResolvedOf(l)

\* filterBusyNodes on every resolved selection and oracle answer
InitFilter ==
    /\ \E l \in Selections : Resolved(l)
    /\ dms \in {"client", "nil"}
    /\ pc = "busyfilter"
    /\ oracleQueries = 0 /\ nodesStatus = [err |-> Nil, Nodes |-> NoStatus]
    /\ filterErr = Nil
    /\ ctxDone = FALSE
    /\ tpc = NoTasks /\ terr = NoTasks /\ logged = NoTasks /\ tloc = NoTasks
    /\ errMsg = NoTasks
    /\ result = Nil /\ resultLock = 0
    /\ updates = NoCalls /\ monitors = NoCalls /\ draining = {}
    /\ retList = <<>> /\ retErr = Nil
    /\ PluginIdle

SpecFilter == InitFilter /\ [][FilterBusyNodes]_vars

\* the Drain stage on the non-empty lists of nodes the filter can hand on; the
\* goroutines are alike, so the lists in ID order stand for every order
Ascending(l) == \A i, j \in 1..Len(l) : i < j => IndexOf(l[i].ID) < IndexOf(l[j].ID)

InitDrain ==
    /\ \E l \in Selections : Len(l) > 0 /\ Ascending(l) /\ Resolved(l)
    /\ dms = "client"
    /\ pc = "drain"
    /\ oracleQueries = 1 /\ nodesStatus = [err |-> Nil, Nodes |-> NoStatus]
    /\ filterErr = Nil
    /\ ctxDone = FALSE
    /\ tpc = NoTasks /\ terr = NoTasks /\ logged = NoTasks /\ tloc = NoTasks
    /\ errMsg = NoTasks
    /\ result = Nil /\ resultLock = 0
    /\ updates = NoCalls /\ monitors = NoCalls /\ draining = {}
    /\ retList = <<>> /\ retErr = Nil
    /\ PluginIdle

NextDrain ==
    \/ DrainNodes
    \/ Cancel
    \/ \E i \in Tasks : UpdateDrain(i)
    \/ \E i \in Tasks : MonitorMsg(i)
    \/ \E i \in Tasks : MonitorClosed(i)
    \/ \E i \in Tasks : LockResult(i)
    \/ \E i \in Tasks : AppendResult(i)
    \/ DrainJoin

SpecDrain == InitDrain /\ [][NextDrain]_vars

\* The Go scheduler runs every runnable goroutine, and the stream of
\* MonitorDrain is closed once its context is done. The call of UpdateDrain at
\* line 305 is given neither the context nor a timeout: nothing makes it
\* return, so it has no fairness condition.
FairDrain ==
    /\ WF_vars(DrainNodes)
    /\ WF_vars(DrainJoin)
    /\ \A i \in 1..MaxNodes :
         /\ WF_vars(i \in Tasks /\ ctxDone /\ MonitorClosed(i))
         /\ WF_vars(i \in Tasks /\ LockResult(i))
         /\ WF_vars(i \in Tasks /\ AppendResult(i))

SpecDrainFair == InitDrain /\ [][NextDrain]_vars /\ FairDrain

\* ------------------------------------------------------- generateScaleReq
\* TargetPlugin.generateScaleReq builds the request of a scale-in from the
\* target's config. Durations are counted in minutes.
ConfigKeyClass == "node_class"
ConfigKeyDrainDeadline == "node_drain_deadline"
DefaultDrainDeadline == 15

\* time.ParseDuration on the texts tried
DeadlineTexts == {"5m", "15m", "1h", "time to make a cuppa"}
ParseDuration(text) ==
    CASE text = "5m"  -> [d |-> 5, err |-> Nil]
      [] text = "15m" -> [d |-> 15, err |-> Nil]
      [] text = "1h"  -> [d |-> 60, err |-> Nil]
      [] OTHER        -> [d |-> 0, err |-> Errorf("time: invalid duration", text)]

ScaleInReq(num, deadline, class) ==
    [Num |-> num,
     DrainDeadline |-> deadline,
     PoolIdentifier |-> [IdentifierKey |-> IdentifierKeyClass, Value |-> class],
     RemoteProvider |-> RemoteProviderAWSInstanceID,
     NodeIDStrategy |-> IDStrategyNewestCreateIndex]

generateScaleReq_DefaultOnError(num, config, order) ==
    IF ConfigKeyClass \notin DOMAIN config
    THEN [req |-> <<>>,
          err |-> Errorf("required config param not found", ConfigKeyClass)]
    ELSE LET parsed == IF ConfigKeyDrainDeadline \in DOMAIN config
                       THEN ParseDuration(config[ConfigKeyDrainDeadline])
                       ELSE [d |-> DefaultDrainDeadline, err |-> Nil]
             drain == IF parsed.err # Nil THEN DefaultDrainDeadline ELSE parsed.d
         IN  [req |-> <<ScaleInReq(num, drain, config[ConfigKeyClass])>>, err |-> Nil]

\* order is the order of the two checks, which the claim leaves open
generateScaleReq(num, config, order) ==
    LET classErr ==
            IF ConfigKeyClass \notin DOMAIN config
            THEN Errorf("required config param not found", ConfigKeyClass)
            ELSE Nil
        parsed ==
            IF ConfigKeyDrainDeadline \in DOMAIN config
            THEN ParseDuration(config[ConfigKeyDrainDeadline])
            ELSE [d |-> DefaultDrainDeadline, err |-> Nil]
        drainErr ==
            IF parsed.err # Nil
            THEN Errorf("failed to parse as time duration", config[ConfigKeyDrainDeadline])
            ELSE Nil
        err == IF order = "class"
               THEN (IF classErr # Nil THEN classErr ELSE drainErr)
               ELSE (IF drainErr # Nil THEN drainErr ELSE classErr)
    IN  IF err # Nil THEN [req |-> <<>>, err |-> err]
        ELSE [req |-> <<ScaleInReq(num, parsed.d, config[ConfigKeyClass])>>, err |-> Nil]

GenerateScaleReq ==
    /\ gpc = "call"
    /\ LET r == generateScaleReq(inputNum, inputConfig, checkOrder)
       IN  genReq' = r.req /\ genErr' = r.err
    /\ gpc' = "returned"
    /\ UNCHANGED <<inputNum, inputConfig, checkOrder, req, curNodeID, dms, inventory, pc,
                   selectVars, resolveVars, oracleVars, ctxDone, taskVars, retVars>>

\* the configs tried: node_class and node_drain_deadline present or not
Configs ==
    UNION {[D -> Classes \cup DeadlineTexts] : D \in SUBSET {ConfigKeyClass, ConfigKeyDrainDeadline}}
WellTyped(config) ==
    /\ ConfigKeyClass \in DOMAIN config => config[ConfigKeyClass] \in Classes
    /\ ConfigKeyDrainDeadline \in DOMAIN config =>
          config[ConfigKeyDrainDeadline] \in DeadlineTexts

InitRequest ==
    /\ inputNum \in -1..MaxNum
    /\ inputConfig \in {c \in Configs : WellTyped(c)}
    /\ checkOrder \in {"class", "deadline"}
    /\ gpc = "call" /\ genReq = <<>> /\ genErr = Nil
    /\ inventory = <<>>
    /\ req = RequestFor(0, RemoteProviderAWSInstanceID)
    /\ curNodeID = ""
    /\ dms = "client"
    /\ pc = "validate"
    /\ listing = [nodes |-> <<>>, err |-> Nil]
    /\ nodes = <<>> /\ warned = FALSE
    /\ infoAnswers = <<>> /\ nodeIDMap = <<>>
    /\ oracleQueries = 0 /\ nodesStatus = [err |-> Nil, Nodes |-> NoStatus]
    /\ filterErr = Nil
    /\ ctxDone = FALSE
    /\ tpc = NoTasks /\ terr = NoTasks /\ logged = NoTasks /\ tloc = NoTasks
    /\ errMsg = NoTasks
    /\ result = Nil /\ resultLock = 0
    /\ updates = NoCalls /\ monitors = NoCalls /\ draining = {}
    /\ retList = <<>> /\ retErr = Nil

SpecRequest == InitRequest /\ [][GenerateScaleReq]_vars

\* ------------------------------------------------------------------ claims
\* the pool of the request, and the nodes eligible for removal, read off the
\* inventory
PoolFiltered == SelectSeq(inventory, LAMBDA s : s.NodeClass = req.PoolIdentifier.Value)
Eligible == SelectSeq(PoolFiltered, LAMBDA s : s.ID # curNodeID)
NoDrainIssued == \A id \in NodeIDs : updates[id] = 0
Failed == {i \in Tasks : terr[i] # Nil}
Selecting == pc \in {"validate", "select"}

\* C1: once the Drain stage has run, the returned list is exactly
\* the nodes whose drain succeeded, also when another node's drain failed.
C1_SuccessfulNodesReturned ==
    (pc = "done" /\ Tasks # {}) =>
        Range(retList) = {nodeIDMap[i] : i \in Tasks \ Failed}

\* C2: when curNodeID is known, no drain update is ever issued for it and it is
\* never among the selected nodes; when it is the only node of the filtered pool
\* the run ends with the no-nodes error of identifyTargets.
C2_SelfNeverDrained ==
    curNodeID # "" =>
        /\ updates[curNodeID] = 0
        /\ curNodeID \notin IDsOf(nodes)
        /\ curNodeID \notin NomadIDsOf(nodeIDMap)
        /\ (/\ ~Selecting /\ validate(req) = Nil /\ listing.err = Nil
            /\ IDsOf(PoolFiltered) = {curNodeID})
           => /\ pc = "done"
              /\ retErr = Errorf("failed to identify nodes for removal", "no nodes unfiltered")
              /\ NoDrainIssued

C2_Witness ==
    /\ pc = "done" /\ retErr = Nil
    /\ curNodeID # "" /\ curNodeID \in IDsOf(PoolFiltered)
    /\ inventory[1].ID = curNodeID
    /\ Len(retList) = 1
    /\ \A id \in NomadIDsOf(retList) : updates[id] = 1

\* C3: a drain update is issued only for nodes that the one oracle answer of the
\* run did not report busy.
C3_NoBusyNodeDrained ==
    /\ oracleQueries <= 1
    /\ \A id \in NodeIDs :
         updates[id] > 0 =>
            /\ oracleQueries = 1 /\ nodesStatus.err = Nil
            /\ (id \in DOMAIN nodesStatus.Nodes => nodesStatus.Nodes[id] = FALSE)

C3_Witness ==
    /\ pc = "done"
    /\ \E busy \in IDsOf(nodes), idle \in IDsOf(nodes) :
         /\ busy \in DOMAIN nodesStatus.Nodes /\ nodesStatus.Nodes[busy]
         /\ updates[busy] = 0
         /\ updates[idle] = 1

\* newest creation index first, ties by node identifier in direction dir
Newer(a, b, dir) ==
    \/ a.CreateIndex > b.CreateIndex
    \/ /\ a.CreateIndex = b.CreateIndex
       /\ IF dir = "ascending" THEN IndexOf(a.ID) < IndexOf(b.ID)
                               ELSE IndexOf(a.ID) > IndexOf(b.ID)
NewestFirst(S, dir) ==
    [i \in 1..Cardinality(S) |->
        CHOOSE a \in S : Cardinality({b \in S : Newer(b, a, dir)}) = i - 1]

\* C4 (as claimed): the selector returns the first min(count, len) eligible
\* nodes in the order newest creation index first, ties by identifier, whatever
\* the order of the listing.
C4_NewestSelected ==
    (pc = "resolve" /\ req.Num >= 0) =>
        \E dir \in {"ascending", "descending"} :
            nodes = SubSeq(NewestFirst(Range(Eligible), dir), 1,
                           Min(req.Num, Len(Eligible)))

\* C5 (as claimed): a valid request with count 0 ends with an empty list and no
\* error.
C5_ZeroCountSucceeds ==
    (req.Num = 0 /\ validate(req) = Nil /\ pc = "done") =>
        (retList = <<>> /\ retErr = Nil)

\* C5 (amended): a request with count 0 never succeeds: no drain stage is
\* entered, no drain update is issued, and when the run returns it returns no
\* list and an error.
C5_ZeroCountFails ==
    req.Num = 0 =>
        /\ pc \notin {"drain", "wait"}
        /\ NoDrainIssued
        /\ pc = "done" => (retList = <<>> /\ retErr # Nil)

C5_Witness ==
    /\ req.Num = 0 /\ pc = "done"
    /\ Len(Eligible) > 0
    /\ oracleQueries = 1
    /\ retErr = Errorf("failed to identify nodes for removal", "")

\* C6: when the pool identifier matches no node of the listing, identifyTargets
\* fails with the no-nodes error and the run ends there: no Info call, no oracle
\* query, no drain update.
C6_EmptyPoolStops ==
    (~Selecting /\ validate(req) = Nil /\ listing.err = Nil /\ PoolFiltered = <<>>) =>
        /\ pc = "done"
        /\ retList = <<>>
        /\ retErr = Errorf("failed to identify nodes for removal", "no nodes unfiltered")
        /\ nodes = <<>>
        /\ infoAnswers = <<>>
        /\ oracleQueries = 0
        /\ NoDrainIssued

C6_Witness ==
    /\ pc = "done" /\ validate(req) = Nil /\ listing.err = Nil
    /\ Len(inventory) = 2 /\ PoolFiltered = <<>>
    /\ req.Num = 1

\* C7: with a supported strategy and a listing in hand, a count above the number
\* of eligible nodes (at least one) is no error: every eligible node is selected,
\* the warning is logged and the run goes on to resolve fewer nodes than
\* requested.
C7_DegradedSelection ==
    (/\ pc # "select" /\ listing.err = Nil
     /\ req.NodeIDStrategy = IDStrategyNewestCreateIndex
     /\ Len(Eligible) >= 1 /\ req.Num > Len(Eligible))
    => /\ pc = "resolve"
       /\ retErr = Nil
       /\ nodes = Eligible
       /\ warned
       /\ Len(nodes) < req.Num

C7_Witness ==
    /\ pc = "resolve" /\ warned
    /\ req.Num = 3 /\ Len(nodes) = 2
    /\ curNodeID \in IDsOf(PoolFiltered)
    /\ Len(inventory) = 3

\* the Info answers that came without an API error
Extracted == {a \in Range(infoAnswers) : a.err = Nil /\ a.InstanceID # ""}
ExtractFailed == {a \in Range(infoAnswers) : a.err = Nil /\ a.InstanceID = ""}
InfoFailed == {a \in Range(infoAnswers) : a.err # Nil}

\* C8 (as claimed): when extraction fails for a node of the batch, getRemoteIDMap
\* leaves that node out of the NodeIDs it returns, records one error for it and
\* resolves every other node.
C8_FailedNodeExcluded ==
    (/\ pc # "resolve" /\ req.RemoteProvider \in idFuncMapKeys
     /\ InfoFailed = {} /\ Len(infoAnswers) = Len(nodes))
    => /\ NomadIDsOf(nodeIDMap) = {a.ID : a \in Extracted}
       /\ Len(retErr) = Cardinality(ExtractFailed)

\* C9: when one selected node resolves and another fails, the
\* BusyFilter stage still runs and the run goes on with the resolved nodes.
C9_PartialResolutionGoesOn ==
    (/\ pc = "done" /\ dms = "client"
     /\ Extracted # {} /\ ExtractFailed # {} /\ InfoFailed = {})
    => oracleQueries = 1

\* C10: when the oracle answers, filterBusyNodes returns the input nodes, in
\* order, whose ID is absent from the answer or mapped to false.
C10_FilterExact ==
    (oracleQueries = 1 /\ nodesStatus.err = Nil) =>
        nodeIDMap = SelectSeq(ResolvedOf(nodes),
                              LAMBDA n : \/ n.NomadID \notin DOMAIN nodesStatus.Nodes
                                         \/ nodesStatus.Nodes[n.NomadID] = FALSE)

C10_Witness ==
    /\ oracleQueries = 1 /\ nodesStatus.err = Nil
    /\ Len(nodes) = 3
    /\ nodes[1].ID \in DOMAIN nodesStatus.Nodes /\ nodesStatus.Nodes[nodes[1].ID]
    /\ nodes[2].ID \notin DOMAIN nodesStatus.Nodes
    /\ nodes[3].ID \in DOMAIN nodesStatus.Nodes /\ ~nodesStatus.Nodes[nodes[3].ID]
    /\ NomadIDsOf(nodeIDMap) = {nodes[2].ID, nodes[3].ID}
    /\ pc = "drain"

\* C11: when the oracle query fails, filterBusyNodes hands back no node and an
\* error, and the run ends there with no list and an error: no drain goroutine
\* is started and no drain update is issued.
C11_OracleFailureTerminal ==
    (oracleQueries = 1 /\ nodesStatus.err # Nil) =>
        /\ filterErr # Nil
        /\ nodeIDMap = <<>>
        /\ pc = "done"
        /\ retList = <<>>
        /\ retErr # Nil
        /\ tpc = NoTasks
        /\ NoDrainIssued

C11_Witness ==
    /\ pc = "done"
    /\ oracleQueries = 1 /\ nodesStatus.err # Nil
    /\ Len(nodes) = 2 /\ Len(infoAnswers) = 2
    /\ retList = <<>> /\ retErr # Nil

\* the run ended at line 113 after the oracle answered and every node was busy
AllBusyError == Errorf("failed to identify nodes for removal", "")

\* C12 (as claimed): when the oracle query fails, the error the run returns is
\* the oracle's failure, and it differs from the error returned when the oracle
\* answered and every node was busy.
C12_OracleErrorPropagated ==
    (pc = "done" /\ oracleQueries = 1 /\ nodesStatus.err # Nil) =>
        /\ retErr = filterErr
        /\ retErr # AllBusyError

Occurrences(seq, e) == Cardinality({k \in 1..Len(seq) : seq[k] = e})
Appending == {i \in Tasks : tpc[i] = "append"}
Appended == {i \in Tasks : tpc[i] = "done" /\ terr[i] # Nil}

\* C13: in every interleaving of the drain goroutines at most one of them is
\* between Lock and Unlock, result holds one entry per goroutine that has
\* appended, and when drainNodes returns its error is nil exactly when no drain
\* failed and holds otherwise exactly one entry per failed node, none lost and
\* none twice.
C13_AggregateExact ==
    /\ Cardinality(Appending) <= 1
    /\ resultLock # 0 => Appending = {resultLock}
    /\ pc = "wait" => Len(result) = Cardinality(Appended)
    /\ (pc = "done" /\ Tasks # {}) =>
          /\ (result = Nil <=> Failed = {})
          /\ Len(result) = Cardinality(Failed)
          /\ \A i \in Failed :
                Occurrences(result, terr[i][1])
                    = Cardinality({j \in Failed : terr[j] = terr[i]})
          /\ retErr = result

C13_Witness ==
    /\ pc = "done" /\ Len(nodeIDMap) = 3
    /\ Failed = {1, 3}
    /\ terr[1] = terr[3]
    /\ tpc[2] = "done" /\ terr[2] = Nil
    /\ Len(result) = 2

\* goroutine i can take a step, or waits for the lock while its holder can
Runnable(i) ==
    \/ ENABLED UpdateDrain(i)
    \/ ENABLED MonitorMsg(i)
    \/ ENABLED MonitorClosed(i)
    \/ ENABLED LockResult(i)
    \/ ENABLED AppendResult(i)
    \/ (resultLock \in Tasks \ {i} /\ ENABLED AppendResult(resultLock))

C14_State ==
    /\ pc \in {"wait", "done"} /\ nodeIDMap # <<>> => DOMAIN tpc = DOMAIN nodeIDMap
    /\ \A i \in Tasks : updates[NodeOf(i)] = IF tpc[i] = "update" THEN 0 ELSE 1
    /\ pc = "wait" => \A i \in Tasks : tpc[i] # "done" => Runnable(i)
    /\ (pc = "done" /\ Tasks # {}) => \A i \in Tasks : tpc[i] = "done"

C14_Step ==
    \A i \in Tasks :
        (terr[i] = Nil /\ terr'[i] # Nil) =>
            /\ ctxDone' = ctxDone
            /\ \A j \in Tasks \ {i} : tpc'[j] = tpc[j] /\ terr'[j] = terr[j]

\* C14: drainNodes starts one goroutine per node, each issuing one drain update
\* for its node, and returns only when all of them have finished; a step in
\* which one node's drain fails leaves the context and every other goroutine as
\* they were, and no unfinished goroutine is ever blocked other than on the
\* lock held by a goroutine that can go on.
C14_JoinAfterAll == []C14_State /\ [][C14_Step]_vars

C14_Witness ==
    /\ pc = "done" /\ ~ctxDone /\ Len(nodeIDMap) = 3
    /\ Text(terr[1]) = "failed to drain node"
    /\ terr[2] = Nil /\ logged[2]
    /\ terr[3] # Nil /\ terr[3][1].detail = "received error while draining node"
    /\ \A i \in Tasks : tpc[i] = "done" /\ updates[NodeOf(i)] = 1

InFlight(i) == tpc[i] \in {"update", "monitor"}

\* under a cancelled context a drain leaves its update or its monitoring loop
\* only as a failure, and a failure once recorded stays
C15_Step ==
    \A i \in Tasks :
        /\ (ctxDone /\ InFlight(i) /\ tpc'[i] \notin {"update", "monitor"}) => terr'[i] # Nil
        /\ terr[i] # Nil => terr'[i] = terr[i]

\* every failure is among the entries of the error drainNodes returned
C15_Reported ==
    (pc = "done" /\ Tasks # {}) =>
        /\ \A i \in Failed : terr[i][1] \in Range(retErr)
        /\ Len(retErr) = Cardinality(Failed)

\* C15: once the context is cancelled during the drains, and the streams close
\* on cancellation, under fair scheduling every goroutine leaves its monitoring
\* loop and finishes and drainNodes returns; every drain that was still in
\* flight under the cancelled context ends as a failure, and every failure is
\* an entry of the aggregate error.
C15_CancelTerminates ==
    /\ [][C15_Step]_vars
    /\ []C15_Reported
    /\ ctxDone ~> (pc = "done" /\ \A i \in Tasks : tpc[i] = "done")

\* what each stage leaves behind once it has run
SelectRan == listing # [nodes |-> <<>>, err |-> Nil] \/ nodes # <<>> \/ warned
ResolveRan == infoAnswers # <<>> \/ nodeIDMap # <<>>
FilterRan == oracleQueries > 0 \/ filterErr # Nil
DrainRan == tpc # NoTasks \/ ~NoDrainIssued \/ monitors # NoCalls
\* what each stage needs to hand the run on to the next one
Validated == validate(req) = Nil
SelectedOK ==
    /\ Validated /\ listing.err = Nil
    /\ req.NodeIDStrategy = IDStrategyNewestCreateIndex
    /\ Eligible # <<>>
ResolvedOK ==
    /\ SelectedOK /\ req.RemoteProvider \in idFuncMapKeys
    /\ Len(infoAnswers) = Len(nodes)
    /\ InfoFailed = {} /\ ExtractFailed = {}
FilteredOK ==
    /\ ResolvedOK /\ oracleQueries = 1 /\ nodesStatus.err = Nil /\ nodeIDMap # <<>>
FailedRun == pc = "done" /\ retList = <<>> /\ retErr # Nil

\* C16: the stages run one after the other in the order validate, select,
\* resolve, busy filter, drain: a stage has run only if every stage before it
\* has finished without error, for the whole batch; and a failed validation, an
\* empty eligible pool, an unsupported strategy or provider, an oracle failure
\* or no node left by the busy filter ends the run with an error and with no
\* later stage run. No drain update is issued before resolution and busy
\* filtering are over.
C16_StagesInOrder ==
    /\ pc = "validate" => ~SelectRan /\ ~ResolveRan /\ ~FilterRan /\ ~DrainRan
    /\ pc = "select" => Validated /\ ~SelectRan /\ ~ResolveRan /\ ~FilterRan /\ ~DrainRan
    /\ pc = "resolve" => Validated /\ listing.err = Nil /\ ~ResolveRan /\ ~FilterRan /\ ~DrainRan
    /\ pc \in {"busyfilter", "panic"} => Len(infoAnswers) = Len(nodes) /\ ~FilterRan /\ ~DrainRan
    /\ pc = "drain" => FilteredOK /\ ~DrainRan
    /\ pc = "wait" => FilteredOK
    /\ SelectRan => Validated
    /\ ResolveRan => SelectedOK
    /\ FilterRan => ResolvedOK
    /\ DrainRan => FilteredOK
    /\ (pc # "validate" /\ ~Validated) => FailedRun /\ ~SelectRan
    /\ (/\ pc \notin {"validate", "select"} /\ Validated /\ listing.err = Nil
        /\ (Eligible = <<>> \/ req.NodeIDStrategy # IDStrategyNewestCreateIndex))
       => FailedRun /\ ~ResolveRan
    /\ (/\ pc \notin {"validate", "select", "resolve"} /\ SelectedOK
        /\ req.RemoteProvider \notin idFuncMapKeys)
       => FailedRun /\ ~FilterRan
    /\ nodesStatus.err # Nil => FailedRun /\ ~DrainRan
    /\ (oracleQueries = 1 /\ nodeIDMap = <<>>) => FailedRun /\ ~DrainRan

C16_Witness ==
    /\ pc = "wait"
    /\ Len(nodes) = 2 /\ Len(infoAnswers) = 2 /\ oracleQueries = 1
    /\ Len(nodeIDMap) = 2
    /\ tpc[1] = "update" /\ updates[NodeOf(1)] = 0
    /\ tpc[2] = "monitor" /\ updates[NodeOf(2)] = 1

\* a finished run in which every stage met no failure: the request is valid and
\* supported, the listing came, some node is eligible, every selected node
\* resolved, the oracle answered with no selected node busy, no drain failed
\* and the context was not cancelled
AllSuccess ==
    /\ pc = "done" /\ SelectedOK /\ ResolvedOK
    /\ oracleQueries = 1 /\ nodesStatus.err = Nil
    /\ \A id \in IDsOf(nodes) :
         id \in DOMAIN nodesStatus.Nodes => ~nodesStatus.Nodes[id]
    /\ Failed = {}
    /\ ~ctxDone
PairedWithRemoteID ==
    /\ Len(retList) = Len(nodes)
    /\ \A i \in 1..Len(retList) :
         /\ retList[i].NomadID = nodes[i].ID
         /\ infoAnswers[i].ID = nodes[i].ID
         /\ retList[i].RemoteID = infoAnswers[i].InstanceID
         /\ retList[i].RemoteID # ""

\* C17 (as claimed): on the all-success path the run returns no error and
\* min(count, eligible nodes) NodeIDs, each a selected node's ID with its remote
\* ID, for every count of a valid request.
C17_AllSuccessReturns ==
    AllSuccess =>
        /\ retErr = Nil
        /\ Len(retList) = Min(req.Num, Len(Eligible))
        /\ PairedWithRemoteID

\* C17 (amended): on the all-success path with a count of at least 1 the run
\* returns no error and min(count, eligible nodes) NodeIDs, each a selected
\* node's ID with its remote ID; with a count of 0 it returns an error and no
\* list.
C17_AllSuccessReturnsPositive ==
    AllSuccess =>
        IF req.Num >= 1
        THEN /\ retErr = Nil
             /\ Len(retList) = Min(req.Num, Len(Eligible))
             /\ PairedWithRemoteID
        ELSE retErr = AllBusyError /\ retList = <<>>

C17_Witness ==
    /\ AllSuccess
    /\ req.Num = 2 /\ Len(Eligible) = 2
    /\ retErr = Nil
    /\ retList = <<[NomadID |-> nodes[1].ID, RemoteID |-> InstanceOf(nodes[1].ID)],
                   [NomadID |-> nodes[2].ID, RemoteID |-> InstanceOf(nodes[2].ID)]>>
    /\ \A i \in Tasks : updates[NodeOf(i)] = 1 /\ logged[i]

\* the listings Nodes().List can give of one inventory snapshot: the same node
\* records in any order
SameSnapshot(l) ==
    {again \in Listings(Range(l), Len(l)) : Len(again) = Len(l) /\ Range(again) = Range(l)}

\* C18: the sequence identifyTargets returns is fixed by the inventory snapshot,
\* the pool identifier, the strategy, the count and the self ID: a second run on
\* the same snapshot returns the same nodes in the same order, in whatever
\* order the control plane lists the snapshot's nodes.
C18_SelectionDetermined ==
    (pc # "select" /\ listing.err = Nil) =>
        \A again \in SameSnapshot(listing.nodes) :
            identifyTargets(req.Num, req.PoolIdentifier, req.NodeIDStrategy,
                            [nodes |-> again, err |-> Nil], curNodeID).out = nodes

\* C19: for every listing and every ID, filterOutNodeID with the empty ID
\* or with an ID that no node of the list has returns the list as it is, in
\* content and order; applied to its own result with the same ID it changes
\* nothing more; and the node of a given ID is not in the result. The list
\* identifyTargets selects from is the pool so filtered.
C19_ExclusionIdempotent ==
    /\ \A id \in NodeIDs \cup {""} :
         LET l == inventory
             once == filterOutNodeID(l, id)
         IN  /\ (id = "" \/ id \notin IDsOf(l)) => once = l
             /\ filterOutNodeID(once, id) = once
             /\ id # "" => id \notin IDsOf(once)
    /\ (pc = "resolve" /\ curNodeID \notin IDsOf(PoolFiltered)) =>
          nodes = SubSeq(PoolFiltered, 1, Len(nodes))

C19_Witness ==
    /\ pc = "resolve"
    /\ curNodeID # "" /\ curNodeID \notin IDsOf(inventory)
    /\ Len(inventory) = 2 /\ PoolFiltered = inventory
    /\ req.Num = 2
    /\ nodes = inventory

\* C20: with a remote provider that has no entry in idFuncMap, getRemoteIDMap
\* returns its error and no NodeID without a single Info call, and the run ends
\* with that error: the oracle is not queried and no drain update is issued.
C20_UnknownProviderFailsFast ==
    (/\ pc \notin {"validate", "select", "resolve"} /\ SelectedOK
     /\ req.RemoteProvider \notin idFuncMapKeys)
    => /\ infoAnswers = <<>>
       /\ nodeIDMap = <<>>
       /\ pc = "done"
       /\ retList = <<>>
       /\ retErr = Errorf("remote provider ID function not found", req.RemoteProvider)
       /\ ~FilterRan
       /\ ~DrainRan

C20_Witness ==
    /\ pc = "done"
    /\ req.RemoteProvider \notin idFuncMapKeys
    /\ Len(nodes) = 2
    /\ infoAnswers = <<>>
    /\ Text(retErr) = "remote provider ID function not found"

\* a run past selection whose request is valid, whose listing came and whose
\* strategy is not the newest-create-index one
UnsupportedStrategyRun ==
    /\ pc \notin {"validate", "select"} /\ Validated /\ listing.err = Nil
    /\ req.NodeIDStrategy # IDStrategyNewestCreateIndex
UnsupportedStrategyError ==
    Errorf("failed to identify nodes for removal",
           "unsupported scale in node identification strategy")
NoNodesError == Errorf("failed to identify nodes for removal", "no nodes unfiltered")

\* C21 (as claimed): with any strategy other than newest-create-index the
\* selection returns the unsupported-strategy error and no nodes, and nothing
\* later runs.
C21_UnsupportedStrategyError ==
    UnsupportedStrategyRun =>
        /\ FailedRun /\ nodes = <<>>
        /\ retErr = UnsupportedStrategyError
        /\ ~ResolveRan /\ ~FilterRan /\ ~DrainRan

\* C21 (amended): with any strategy other than newest-create-index the
\* selection returns an error and no nodes, and nothing later runs: no node is
\* selected in some default order, resolved, or drained. The error is the
\* unsupported-strategy error when some node is eligible, and the no-nodes
\* error, checked first, when none is.
C21_UnsupportedStrategyFails ==
    UnsupportedStrategyRun =>
        /\ FailedRun /\ nodes = <<>>
        /\ retErr = IF Eligible = <<>> THEN NoNodesError ELSE UnsupportedStrategyError
        /\ ~ResolveRan /\ ~FilterRan /\ ~DrainRan

C21_Witness ==
    /\ UnsupportedStrategyRun
    /\ Len(Eligible) = 2 /\ req.Num = 1
    /\ retErr = UnsupportedStrategyError
    /\ nodes = <<>>

\* the configs of the four cases of TestTargetPlugin_generateScaleReq
Config(class, deadline) ==
    [k \in {ConfigKeyClass, ConfigKeyDrainDeadline} |->
        IF k = ConfigKeyClass THEN class ELSE deadline]
ClassOnly(class) == [k \in {ConfigKeyClass} |-> class]
TestCases ==
    /\ inputConfig = Config("high-memory", "5m") =>
          genErr = Nil /\ genReq = <<ScaleInReq(inputNum, 5, "high-memory")>>
    /\ inputConfig = NoConfig =>
          genReq = <<>> /\ Text(genErr) = "required config param not found"
    /\ inputConfig = ClassOnly("high-memory") =>
          genErr = Nil /\ genReq = <<ScaleInReq(inputNum, 15, "high-memory")>>
    /\ inputConfig = Config("high-memory", "time to make a cuppa") =>
          /\ genReq = <<>>
          /\ genErr = Errorf("failed to parse as time duration", "time to make a cuppa")

\* C22: generateScaleReq returns either an error and no request, when
\* node_class is missing or node_drain_deadline does not parse, or else no
\* error and the request with the input number, the class pool identifier of
\* the configured value, the AWS provider, the newest-create-index strategy and
\* the configured deadline, 15 minutes when none is configured; the four cases
\* of the test come out as the test expects.
C22_RequestAllOrNothing ==
    gpc = "returned" =>
        LET hasClass == ConfigKeyClass \in DOMAIN inputConfig
            hasDeadline == ConfigKeyDrainDeadline \in DOMAIN inputConfig
            parses == hasDeadline =>
                        inputConfig[ConfigKeyDrainDeadline] \in {"5m", "15m", "1h"}
        IN  /\ IF hasClass /\ parses
               THEN /\ genErr = Nil
                    /\ Len(genReq) = 1
                    /\ genReq[1].Num = inputNum
                    /\ genReq[1].PoolIdentifier =
                          [IdentifierKey |-> IdentifierKeyClass,
                           Value |-> inputConfig[ConfigKeyClass]]
                    /\ genReq[1].RemoteProvider = RemoteProviderAWSInstanceID
                    /\ genReq[1].NodeIDStrategy = IDStrategyNewestCreateIndex
                    /\ genReq[1].DrainDeadline =
                          IF ~hasDeadline THEN 15
                          ELSE CASE inputConfig[ConfigKeyDrainDeadline] = "5m" -> 5
                                 [] inputConfig[ConfigKeyDrainDeadline] = "15m" -> 15
                                 [] inputConfig[ConfigKeyDrainDeadline] = "1h" -> 60
               ELSE genReq = <<>> /\ genErr # Nil
            /\ TestCases

C22_Witness ==
    /\ gpc = "returned"
    /\ inputNum = 2
    /\ inputConfig = ClassOnly("high-memory")
    /\ genErr = Nil
    /\ genReq = <<ScaleInReq(2, 15, "high-memory")>>

\* what drainNode returns for a stream that delivered an error-level message
ErrorMessageFailure ==
    Errorf("context done while monitoring node drain", "received error while draining node")

\* an error-level message has ended the drain as a failure, and only such a
\* message gives that failure; a drain that got other messages only is still
\* open while its stream is
C23_State ==
    \A i \in Tasks :
        /\ errMsg[i] => tpc[i] \in {"failed", "append", "done"} /\ terr[i] = ErrorMessageFailure
        /\ terr[i] = ErrorMessageFailure => errMsg[i]
        /\ (tpc[i] = "monitor" /\ logged[i]) => terr[i] = Nil

\* the step that takes the error-level message is the step that fails the
\* drain, whatever came before and with the stream still open; a step that
\* takes a message of another level changes no drain's position or error
C23_Step ==
    \A i \in Tasks :
        /\ (~errMsg[i] /\ errMsg'[i]) =>
              /\ tpc[i] = "monitor" /\ tpc'[i] = "failed"
              /\ terr'[i] = ErrorMessageFailure
              /\ monitors' = monitors
        /\ (~logged[i] /\ logged'[i]) => tpc' = tpc /\ terr' = terr /\ errMsg' = errMsg
        /\ tpc[i] # "monitor" => errMsg'[i] = errMsg[i] /\ logged'[i] = logged[i]

\* C23: the first error-level message of a node's stream ends that node's drain
\* as a failure in the very step that reads it, no further message of the
\* stream is read and its closing is not awaited; messages of the info, warn
\* and unspecified levels, however many, leave every drain's outcome as it was.
C23_ErrorMessageTerminal == []C23_State /\ [][C23_Step]_vars

C23_Witness ==
    /\ pc = "wait" /\ ~ctxDone
    /\ Len(nodeIDMap) = 2
    /\ tpc[1] = "failed" /\ errMsg[1] /\ logged[1] /\ terr[1] = ErrorMessageFailure
    /\ tpc[2] = "monitor" /\ logged[2] /\ terr[2] = Nil

\* what drainNode returns for a stream that closed under a cancelled context
ContextAbortedFailure ==
    Errorf("context done while monitoring node drain", "context canceled")

\* the step in which goroutine i finds its stream closed, no error-level
\* message having come
StreamCloses(i) ==
    /\ tpc[i] = "monitor" /\ tpc'[i] # "monitor"
    /\ ~errMsg'[i]

C24_Step ==
    \A i \in Tasks :
        StreamCloses(i) =>
            IF ctxDone
            THEN tpc'[i] = "failed" /\ terr'[i] = ContextAbortedFailure
            ELSE tpc'[i] = "done" /\ terr'[i] = Nil

C24_State ==
    \A i \in Tasks :
        /\ terr[i] = ContextAbortedFailure => ctxDone /\ ~errMsg[i]
        /\ (tpc[i] = "done" /\ terr[i] = Nil) => ~errMsg[i] /\ monitors[NodeOf(i)] = 1

\* C24: when a node's stream closes and no error-level message has come, the
\* drain is a success exactly when the context is not cancelled at that step,
\* and the context-aborted failure when it is.
C24_ClosedStreamOutcome == []C24_State /\ [][C24_Step]_vars

C24_Witness ==
    /\ pc = "wait" /\ ctxDone
    /\ Len(nodeIDMap) = 2
    /\ tpc[1] = "done" /\ terr[1] = Nil /\ logged[1]
    /\ tpc[2] = "failed" /\ terr[2] = ContextAbortedFailure /\ logged[2]

UpdateFailure == Errorf("failed to drain node", "Unexpected response code: 500")

\* C25: in a run no node gets more than one drain update and no node gets more
\* than one monitoring stream, and a stream is opened only after the node's
\* update: a failed drain is not tried again.
C25_NoRetry ==
    /\ \A id \in NodeIDs :
         /\ updates[id] <= 1
         /\ monitors[id] <= updates[id]
    /\ \A i \in Tasks :
         /\ tpc[i] # "update" => updates[NodeOf(i)] = 1
         /\ terr[i] # Nil => tpc[i] \in {"failed", "append", "done"}

C25_Witness ==
    /\ pc = "done" /\ Tasks = {1, 2}
    /\ terr[1] = UpdateFailure
    /\ updates[NodeOf(1)] = 1 /\ monitors[NodeOf(1)] = 0
    /\ terr[2] = ErrorMessageFailure
    /\ updates[NodeOf(2)] = 1 /\ monitors[NodeOf(2)] = 1
    /\ Len(retErr) = 2

C26_Step == \A id \in NodeIDs : id \in draining => id \in draining'

C26_State ==
    /\ \A id \in NodeIDs : updates[id] <= 1 /\ (id \in draining <=> monitors[id] = 1)
    /\ \A i \in Tasks : terr[i] \in {ErrorMessageFailure, ContextAbortedFailure}
                            => NodeOf(i) \in draining

\* C26: a node whose drain update has succeeded stays draining through every
\* later step of the run: the cancellation of the context, the failure of its
\* own monitoring and the failure of another node's drain leave the drain as
\* the cluster has it, and no second call is made for the node.
C26_NoRollback == []C26_State /\ [][C26_Step]_vars

C26_Witness ==
    /\ pc = "done" /\ ctxDone /\ Tasks = {1, 2}
    /\ terr[1] = ContextAbortedFailure /\ NodeOf(1) \in draining
    /\ terr[2] = UpdateFailure /\ NodeOf(2) \notin draining
    /\ retList = <<>> /\ Len(retErr) = 2

\* C27 (as claimed): when the fetch of one node's record fails, getRemoteIDMap
\* records the failure, leaves that node out of its output and still fetches
\* and resolves the other nodes of the batch.
C27_FetchFailureAccumulated ==
    (/\ pc # "resolve" /\ req.RemoteProvider \in idFuncMapKeys
     /\ InfoFailed # {} /\ ExtractFailed = {})
    => /\ Len(infoAnswers) = Len(nodes)
       /\ NomadIDsOf(nodeIDMap) = {a.ID : a \in Extracted}
       /\ Len(retErr) = Cardinality(InfoFailed)

UpdatedNodes == {id \in NodeIDs : updates[id] > 0}

\* C28: the nodes for which a drain update is issued are never more than the
\* count of the request (none for a count below zero), as are the drain
\* goroutines, and each of them is a node of the request's pool.
C28_DrainsWithinCount ==
    /\ Cardinality(UpdatedNodes) <= (IF req.Num < 0 THEN 0 ELSE req.Num)
    /\ Cardinality(Tasks) <= (IF req.Num < 0 THEN 0 ELSE req.Num)
    /\ UpdatedNodes \subseteq IDsOf(PoolFiltered)
    /\ \A i \in Tasks : NodeOf(i) \in IDsOf(PoolFiltered)

C28_Witness ==
    /\ pc = "done" /\ retErr = Nil
    /\ req.Num = 1 /\ Len(Eligible) = 2
    /\ Cardinality(UpdatedNodes) = 1
    /\ UpdatedNodes = NomadIDsOf(retList)

UpdateFailed == {i \in Tasks : terr[i] = UpdateFailure}

C29_State ==
    /\ \A i \in UpdateFailed :
         /\ monitors[NodeOf(i)] = 0 /\ NodeOf(i) \notin draining
         /\ ~logged[i] /\ ~errMsg[i]
         /\ tpc[i] \in {"failed", "append", "done"}
         /\ updates[NodeOf(i)] = 1
    /\ (pc = "done" /\ Tasks # {}) =>
          Occurrences(result, UpdateFailure[1]) = Cardinality(UpdateFailed)

C29_Step ==
    \A i \in Tasks :
        (terr[i] = Nil /\ terr'[i] = UpdateFailure) =>
            /\ tpc[i] = "update"
            /\ \A j \in Tasks \ {i} :
                 /\ tpc'[j] = tpc[j] /\ terr'[j] = terr[j]
                 /\ monitors'[NodeOf(j)] = monitors[NodeOf(j)]
            /\ ctxDone' = ctxDone /\ result' = result

\* C29: a node whose drain update fails gets no monitoring stream and reads no
\* message, its failure is one entry of the error drainNodes returns, and the
\* step in which it fails leaves the goroutines of the other nodes, the
\* context and the error collected so far as they were.
C29_UpdateFailureContained == []C29_State /\ [][C29_Step]_vars

C29_Witness ==
    /\ pc = "done" /\ ~ctxDone /\ Tasks = {1, 2, 3}
    /\ UpdateFailed = {2}
    /\ monitors[NodeOf(2)] = 0
    /\ terr[1] = Nil /\ terr[3] = Nil
    /\ monitors[NodeOf(1)] = 1 /\ monitors[NodeOf(3)] = 1
    /\ result = UpdateFailure

\* the nodes an error names: those whose internal ID is the message or the
\* detail of one of its entries
NodesNamedIn(err) ==
    {NodeOf(i) : i \in {j \in Tasks :
        \E k \in 1..Len(err) : NodeOf(j) \in {err[k].msg, err[k].detail}}}

FailedNodes == {NodeOf(i) : i \in {j \in Tasks : terr[j] # Nil}}

\* C30: when drainNodes has returned, the nodes its error names are the nodes
\* whose drain failed, and the entries of two failed nodes are different
\* entries, so that the error alone tells which nodes failed.
C30_EntriesIdentifyNodes ==
    (pc = "done" /\ Tasks # {}) =>
        /\ NodesNamedIn(result) = FailedNodes
        /\ \A i, j \in Tasks :
             (i # j /\ terr[i] # Nil /\ terr[j] # Nil) => terr[i] # terr[j]

\* C31: a run of RunPreScaleInTasks on a ScaleIn that NewScaleInUtils returned
\* never crashes: the busy filter always finds an oracle client to query, so
\* the run is always at a stage of the pipeline or has returned.
C31_OracleClientUsable ==
    /\ pc # "panic"
    /\ pc = "drain" => dms = "client"

====
